---------------------------- MODULE Spec2Model ----------------------------
(* A model of src/app.py: the cached / rate-limited / retried fetch         *)
(* operations, the Reddit comment scan, the sentiment advisory, the price   *)
(* alert and the script flow of main().                                     *)
(*                                                                          *)
(* Time is counted in ticks, TicksPerSecond ticks to the second, so that    *)
(* sub-second intervals of the rate limiter are representable with exact    *)
(* integer arithmetic.  A score is the exact rational num/den.              *)
EXTENDS Integers, Sequences, FiniteSets, TLC

(***************************************************************************)
(* Bounds of the model                                                     *)
(***************************************************************************)
TicksPerSecond == 4
\* reading of time.time() when the process starts, in seconds (stands for
\* the Unix time, which is far above every interval of the program)
StartSeconds == 5
\* the callers of the fetch functions stop this many seconds after the start
HorizonSeconds == 3900
\* the number of script runs
MaxRuns == 2
\* the submissions of the hot feed when main() runs
AppFeedCap == 1
\* the submissions of the hot feed when fetch_reddit_comments is called alone
MaxFeed == 11
\* the largest limit passed to fetch_reddit_comments
MaxLimit == 2
\* the largest rate passed to rate_limited
MaxRate == 2
\* the callers of the rate-limited function stop this many ticks after the
\* start
RateTicks == 12
\* time.sleep may return this many ticks late
MaxOversleep == 1

(***************************************************************************)
(* Program constants                                                       *)
(***************************************************************************)
TTL_COINS == 3600
TTL_INFO == 600
TTL_MARKET == 300
RATE_COINS == 1
MAX_ATTEMPTS == 3
WAIT_MIN == 4
WAIT_MAX == 10
HOT_LIMIT == 10
DEFAULT_LIMIT == 50

Seconds(s) == s * TicksPerSecond
StartTime == Seconds(StartSeconds)
Horizon == StartTime + Seconds(HorizonSeconds)

Min(a, b) == IF a < b THEN a ELSE b
Max(a, b) == IF a > b THEN a ELSE b
Last(s) == s[Len(s)]

(***************************************************************************)
(* Values                                                                  *)
(***************************************************************************)
\* the coin catalog the market-data service answers with: ids in the order
\* of the response, and the symbol of each id as a sequence of characters
CoinIds == <<"bitcoin", "ethereum">>
SymbolOf(id) == IF id = "bitcoin" THEN <<"b", "t">> ELSE <<"e">>

\* the result of a function: a returned value or a raised exception
NoRet == [kind |-> "none", data |-> <<>>]
Value(d) == [kind |-> "value", data |-> d]
Raise == [kind |-> "raise", data |-> <<>>]


(***************************************************************************)
(* State                                                                   *)
(***************************************************************************)
VARIABLES
  now,               \* time.time(), in ticks
  cache,             \* st.cache_data: key -> entry, kept for the process
  invoked,           \* history: the latest raw request of each key
  last_time_called,  \* the closure variable of rate_limited
  analyze_clicked,   \* st.session_state.analyze_clicked
  pc,                \* where the script run is
  status,            \* how the latest script run ended
  runs,              \* history: the number of script runs so far
  op, args,          \* the fetch function being called and its arguments
  stack,             \* the wrappers of the call entered so far
  attempt,           \* tenacity's attempt number within the call
  ret,               \* the result travelling up the stack
  reqLog,            \* history: outcomes of the raw requests of the call
  gateLog,           \* history: len(reqLog) at each pass of the gate
  coins, selected_coin, time_period, target_price,
  coin_info, comments, score, dates, prices,
  shown,             \* what the page shows (errors, warnings, cards)
  advice, alerts,    \* advisory and alert messages emitted by the run
  collected,         \* the list comments of fetch_reddit_comments
  scanLog,           \* history: len(comments) before each submission read
  feedCap,           \* the most submissions the hot feed holds
  max_per_second,    \* the argument of rate_limited
  starts             \* history: the latest two calls of the rate-limited func

callVars == <<op, args, stack, attempt, ret, reqLog, gateLog>>
localVars == <<coins, selected_coin, time_period, target_price,
               coin_info, comments, score, dates, prices>>
pageVars == <<shown, advice, alerts>>
procVars == <<now, cache, invoked, last_time_called, analyze_clicked>>
redditVars == <<collected, scanLog>>
benchVars == <<feedCap, max_per_second, starts>>

(***************************************************************************)
(* st.cache_data                                                           *)
(***************************************************************************)
\* lines 526-529
time_mapping(p) ==
  CASE p = "1 Day" -> 1 [] p = "7 Days" -> 7 [] p = "30 Days" -> 30
    [] p = "90 Days" -> 90 [] p = "180 Days" -> 180 [] OTHER -> 365

\* the time periods the user of the model chooses among
PeriodChoices == {"7 Days"}

CoinSet == {CoinIds[i] : i \in 1..Len(CoinIds)}
Keys == {<<"fetch_all_coins">>}
          \cup {<<"fetch_coin_info", c>> : c \in CoinSet}
          \cup {<<"fetch_market_data", c, time_mapping(p)>> :
                  c \in CoinSet, p \in PeriodChoices}
Key(f, a) == <<f>> \o a

NoEntry == [present |-> FALSE, created |-> 0, value |-> <<>>]
\* the history of a key: never requested, requested at a time with an
\* outcome, or requested longer ago than the ttl of its function
NotInvoked == [time |-> 0, outcome |-> "never"]
LongAgo == [time |-> 0, outcome |-> "old"]
Request(t, outcome) ==
  [time |-> t, outcome |-> IF outcome = "ok" THEN "ok" ELSE "failed"]

\* ttl= of each st.cache_data decorator, in seconds
TTL(f) ==
  CASE f = "fetch_all_coins" -> TTL_COINS
    [] f = "fetch_coin_info" -> TTL_INFO
    [] f = "fetch_market_data" -> TTL_MARKET
    [] OTHER -> 0

\* an entry is usable while its age is below the ttl
LiveAtTtl(e, f, t) == e.present /\ t - e.created <= Seconds(TTL(f))
Live(e, f, t) == e.present /\ t - e.created < Seconds(TTL(f))

\* the cache with the result v of key k stored at time t
Stored(c, k, v, t) ==
  [c EXCEPT ![k] = [present |-> TRUE, created |-> t, value |-> v]]

\* the cache at time t: an expired entry is the same as none to every
\* caller, and is dropped as soon as the time has passed
Purged(c, t) ==
  [k \in DOMAIN c |-> IF Live(c[k], k[1], t) THEN c[k] ELSE NoEntry]

\* the history at time t
Recent(r, f, t) ==
  r.outcome \in {"ok", "failed"} /\ t - r.time < Seconds(TTL(f))
Forgotten(h, t) ==
  [k \in DOMAIN h |->
     IF h[k].outcome \in {"ok", "failed"} /\ ~Recent(h[k], k[1], t)
     THEN LongAgo ELSE h[k]]

(***************************************************************************)
(* The decorators of each fetch function, outermost first                  *)
(***************************************************************************)
DecoratorsRateInnermost(f) ==
  CASE f = "fetch_all_coins" -> <<"cache_data", "retry", "rate_limited", "body">>
    [] f = "fetch_coin_info" -> <<"cache_data", "retry", "body">>
    [] f = "fetch_market_data" -> <<"cache_data", "retry", "body">>
    [] OTHER -> <<"retry", "body">>
Decorators(f) ==
  CASE f = "fetch_all_coins" -> <<"cache_data", "rate_limited", "retry", "body">>
    [] f = "fetch_coin_info" -> <<"cache_data", "retry", "body">>
    [] f = "fetch_market_data" -> <<"cache_data", "retry", "body">>
    [] OTHER -> <<"retry", "body">>

Top == IF stack = <<>> THEN "main" ELSE stack[Len(stack)]
Entering == ret.kind = "none"
Returning == ret.kind # "none"
Push == Append(stack, Decorators(op)[Len(stack) + 1])
Pop == SubSeq(stack, 1, Len(stack) - 1)
StartCall(f, a) ==
  /\ op' = f
  /\ args' = a
  /\ stack' = <<Decorators(f)[1]>>
  /\ attempt' = 0
  /\ ret' = NoRet
  /\ reqLog' = <<>>
  /\ gateLog' = <<>>
  /\ collected' = <<>>
  /\ scanLog' = <<>>

\* st.cache_data on the way in: a live entry is returned, else the wrapped
\* function is called
CacheLookup ==
  /\ UNCHANGED redditVars
  /\ Top = "cache_data" /\ Entering
  /\ LET e == cache[Key(op, args)] IN
       IF Live(e, op, now)
       THEN ret' = Value(e.value) /\ stack' = Pop
       ELSE ret' = ret /\ stack' = Push
  /\ UNCHANGED <<op, args, attempt, reqLog, gateLog>>
  /\ UNCHANGED <<procVars, pc, status, runs, localVars, pageVars, benchVars>>

\* st.cache_data on the way out: a returned value is stored, an exception
\* is not
CacheStore ==
  /\ UNCHANGED redditVars
  /\ Top = "cache_data" /\ Returning
  /\ cache' = IF ret.kind = "value"
              THEN Stored(cache, Key(op, args), ret.data, now)
              ELSE cache
  /\ stack' = Pop
  /\ UNCHANGED <<op, args, attempt, ret, reqLog, gateLog>>
  /\ UNCHANGED <<now, invoked, last_time_called, analyze_clicked>>
  /\ UNCHANGED <<pc, status, runs, localVars, pageVars, benchVars>>

(***************************************************************************)
(* rate_limited                                                            *)
(***************************************************************************)
\* The times at which rate_limited_function, entered at time t with
\* last_time_called = last, goes on to call func: wait = 1/rate - (t - last)
\* seconds; time.sleep(wait) returns no earlier than asked.
NoSleep(t, last, rate) == {t}
WakeTimes(t, last, rate) ==
  IF TicksPerSecond - (t - last) * rate > 0
  THEN {w \in t..(t + TicksPerSecond + MaxOversleep) :
          /\ (w - last) * rate >= TicksPerSecond
          /\ (w - 1 - MaxOversleep - last) * rate < TicksPerSecond}
  ELSE {t}

GateEnter ==
  /\ UNCHANGED redditVars
  /\ Top = "rate_limited" /\ Entering
  /\ \E w \in WakeTimes(now, last_time_called, RATE_COINS) :
       /\ now' = w
       /\ last_time_called' = w
  /\ gateLog' = Append(gateLog, Len(reqLog))
  /\ stack' = Push
  /\ UNCHANGED <<op, args, attempt, ret, reqLog>>
  /\ UNCHANGED <<cache, invoked, analyze_clicked>>
  /\ UNCHANGED <<pc, status, runs, localVars, pageVars, benchVars>>

\* return func(*args, **kwargs)
GateReturn ==
  /\ UNCHANGED redditVars
  /\ Top = "rate_limited" /\ Returning
  /\ stack' = Pop
  /\ UNCHANGED <<op, args, attempt, ret, reqLog, gateLog>>
  /\ UNCHANGED <<procVars, pc, status, runs, localVars, pageVars, benchVars>>

(***************************************************************************)
(* tenacity retry(stop_after_attempt(3), wait_exponential(1, 4, 10))       *)
(***************************************************************************)
\* seconds slept after failed attempt number n
Backoff(n) == Max(WAIT_MIN, Min(WAIT_MAX, 2 ^ (n - 1)))

\* (the body entered starts with its locals fresh: line 369)
RetryAttempt ==
  /\ Top = "retry" /\ Entering
  /\ attempt' = attempt + 1
  /\ collected' = <<>>
  /\ scanLog' = <<>>
  /\ stack' = Push
  /\ UNCHANGED <<op, args, ret, reqLog, gateLog>>
  /\ UNCHANGED <<procVars, pc, status, runs, localVars, pageVars, benchVars>>

\* an attempt that raised is repeated after the backoff unless it was the
\* last one; a returned value ends the call
RetryReturn ==
  /\ UNCHANGED redditVars
  /\ Top = "retry" /\ Returning
  /\ IF ret.kind = "raise" /\ attempt < MAX_ATTEMPTS
     THEN /\ now' = now + Seconds(Backoff(attempt))
          /\ ret' = NoRet
          /\ stack' = stack
     ELSE /\ now' = now
          /\ ret' = ret
          /\ stack' = Pop
  /\ UNCHANGED <<op, args, attempt, reqLog, gateLog>>
  /\ UNCHANGED <<cache, invoked, last_time_called, analyze_clicked>>
  /\ UNCHANGED <<pc, status, runs, localVars, pageVars, benchVars>>


(***************************************************************************)
(* The bodies of the fetch functions                                       *)
(***************************************************************************)
\* what a request to the market-data service does: it answers 2xx, answers
\* another status (raise_for_status raises) or fails in transport
Outcomes == {"ok", "http_error", "transport_error"}

\* lines 312-321: the except clause turns every failure into {}
fetch_all_coins(outcome) ==
  IF outcome = "ok" THEN Value(CoinIds) ELSE Value(<<>>)

\* lines 327-336: the coin's record, None (here <<>>) on every failure
InfoOf(coin_id) == <<[name |-> coin_id]>>
fetch_coin_info(coin_id, outcome) ==
  IF outcome = "ok" THEN Value(InfoOf(coin_id)) ELSE Value(<<>>)

\* lines 342-363: (dates, prices) of the answer's price points, ([], [])
\* when there are none and on every failure
DatesOf(data) == [i \in 1..Len(data) |-> i]
fetch_market_data(coin_id, days, outcome, data) ==
  IF outcome = "ok" /\ data # <<>>
  THEN Value(<<DatesOf(data), data>>)
  ELSE Value(<<<<>>, <<>>>>)

\* the price series the service answers with in the model
SeriesChoices == {<<>>, <<2, 1>>, <<1, 2>>}

BodyFetchAllCoins ==
  /\ UNCHANGED redditVars
  /\ Top = "body" /\ Entering /\ op = "fetch_all_coins"
  /\ \E outcome \in Outcomes :
       /\ ret' = fetch_all_coins(outcome)
       /\ reqLog' = Append(reqLog, outcome)
       /\ invoked' = [invoked EXCEPT
                        ![Key(op, args)] = Request(now, outcome)]
  /\ stack' = Pop
  /\ UNCHANGED <<op, args, attempt, gateLog>>
  /\ UNCHANGED <<now, cache, last_time_called, analyze_clicked>>
  /\ UNCHANGED <<pc, status, runs, localVars, pageVars, benchVars>>

BodyFetchCoinInfo ==
  /\ UNCHANGED redditVars
  /\ Top = "body" /\ Entering /\ op = "fetch_coin_info"
  /\ \E outcome \in Outcomes :
       /\ ret' = fetch_coin_info(args[1], outcome)
       /\ reqLog' = Append(reqLog, outcome)
       /\ invoked' = [invoked EXCEPT
                        ![Key(op, args)] = Request(now, outcome)]
  /\ stack' = Pop
  /\ UNCHANGED <<op, args, attempt, gateLog>>
  /\ UNCHANGED <<now, cache, last_time_called, analyze_clicked>>
  /\ UNCHANGED <<pc, status, runs, localVars, pageVars, benchVars>>

BodyFetchMarketData ==
  /\ UNCHANGED redditVars
  /\ Top = "body" /\ Entering /\ op = "fetch_market_data"
  /\ \E outcome \in Outcomes, data \in SeriesChoices :
       /\ outcome # "ok" => data = <<>>
       /\ ret' = fetch_market_data(args[1], args[2], outcome, data)
       /\ reqLog' = Append(reqLog, outcome)
       /\ invoked' = [invoked EXCEPT
                        ![Key(op, args)] = Request(now, outcome)]
  /\ stack' = Pop
  /\ UNCHANGED <<op, args, attempt, gateLog>>
  /\ UNCHANGED <<now, cache, last_time_called, analyze_clicked>>
  /\ UNCHANGED <<pc, status, runs, localVars, pageVars, benchVars>>

(***************************************************************************)
(* fetch_reddit_comments                                                   *)
(***************************************************************************)
\* str.lower on the characters of the model
Lower(ch) ==
  CASE ch = "B" -> "b" [] ch = "T" -> "t" [] ch = "E" -> "e" [] OTHER -> ch
LowerStr(s) == [i \in 1..Len(s) |-> Lower(s[i])]

\* Python's  needle in hay
Contains(hay, needle) ==
  \E i \in 0..(Len(hay) - Len(needle)) :
     SubSeq(hay, i + 1, i + Len(needle)) = needle

\* line 374
Mentions(coin_symbol, body) == Contains(LowerStr(body), LowerStr(coin_symbol))

\* lines 372-375: the comments after one more submission
Extended(cs, thread, coin_symbol) ==
  LET Test(b) == Mentions(coin_symbol, b) IN cs \o SelectSeq(thread, Test)

\* comments[:limit]
Untruncated(cs, limit) == cs
Truncated(cs, limit) == SubSeq(cs, 1, Min(limit, Len(cs)))

\* main() passes no limit
Limit(a) == IF Len(a) >= 2 THEN a[2] ELSE DEFAULT_LIMIT

\* the comment bodies of a submission in the model
ThreadChoices ==
  { <<<<"x">>>>,
    <<<<"B", "T", "x">>, <<"x">>>>,
    <<<<"x", "b", "t">>, <<"x", "E">>, <<"b", "T">>>> }

\* the loop has left by its break (lines 376-377)
Broke == scanLog # <<>> /\ Len(collected) >= Limit(args)
InRedditBody == Top = "body" /\ Entering /\ op = "fetch_reddit_comments"

\* lines 370-377: the feed yields one more submission, whose matching
\* comments are added
RedditScan ==
  /\ InRedditBody /\ ~Broke
  /\ Len(scanLog) < Min(HOT_LIMIT, feedCap)
  /\ \E thread \in ThreadChoices :
       collected' = Extended(collected, thread, args[1])
  /\ scanLog' = Append(scanLog, Len(collected))
  /\ UNCHANGED <<op, args, stack, attempt, ret, reqLog, gateLog>>
  /\ UNCHANGED <<procVars, pc, status, runs, localVars, pageVars, benchVars>>

\* line 378, after the break or after the last submission of the feed
RedditReturn ==
  /\ InRedditBody
  /\ ret' = Value(Truncated(collected, Limit(args)))
  /\ reqLog' = Append(reqLog, "ok")
  /\ stack' = Pop
  /\ UNCHANGED <<op, args, attempt, gateLog, redditVars>>
  /\ UNCHANGED <<procVars, pc, status, runs, localVars, pageVars, benchVars>>

\* lines 379-381: the Reddit session raises while the feed or a submission
\* is fetched
RedditFail ==
  /\ InRedditBody /\ ~Broke
  /\ ret' = Value(<<>>)
  /\ reqLog' = Append(reqLog, "error")
  /\ stack' = Pop
  /\ UNCHANGED <<op, args, attempt, gateLog, redditVars>>
  /\ UNCHANGED <<procVars, pc, status, runs, localVars, pageVars, benchVars>>

(***************************************************************************)
(* Analysis                                                                *)
(***************************************************************************)
\* polarities are multiples of 1/Scale in [-1, 1]
Scale == 50
Score(n, d) == [num |-> n, den |-> d]
\* score > p/q and score < p/q, for positive denominators
Gt(s, p, q) == s.num * q > p * s.den
Lt(s, p, q) == s.num * q < p * s.den

RECURSIVE Sum(_)
Sum(s) == IF s = <<>> THEN 0 ELSE s[1] + Sum(Tail(s))

\* lines 386-414: 0 for no comments, else the mean of the polarities pols
\* that TextBlob gives the comments
analyze_comments(cs, pols) ==
  IF cs = <<>> THEN Score(0, 1) ELSE Score(Sum(pols), Len(cs) * Scale)

\* lines 416-427: the messages emitted
AdviceStrongFromTenth(s) ==
  IF ~Lt(s, 1, 10) THEN <<"strong_positive">>
  ELSE IF Gt(s, 0, 1) THEN <<"mild_positive">>
  ELSE IF Lt(s, -1, 10) THEN <<"strong_negative">>
  ELSE IF Lt(s, 0, 1) THEN <<"mild_negative">>
  ELSE <<"neutral">>
provide_investment_advice(s) ==
  IF Gt(s, 1, 10) THEN <<"strong_positive">>
  ELSE IF Gt(s, 0, 1) THEN <<"mild_positive">>
  ELSE IF Lt(s, -1, 10) THEN <<"strong_negative">>
  ELSE IF Lt(s, 0, 1) THEN <<"mild_negative">>
  ELSE <<"neutral">>

\* lines 587-592: the alerts emitted
PriceAlertStrict(ps, target) ==
  LET current_price == IF ps # <<>> THEN Last(ps) ELSE 0 IN
    IF current_price > target /\ target > 0 THEN <<"reached">>
    ELSE IF current_price <= target /\ target > 0 THEN <<"dropped_below">>
    ELSE <<>>
PriceAlert(ps, target) ==
  LET current_price == IF ps # <<>> THEN Last(ps) ELSE 0 IN
    IF current_price >= target /\ target > 0 THEN <<"reached">>
    ELSE IF current_price <= target /\ target > 0 THEN <<"dropped_below">>
    ELSE <<>>

\* the polarities TextBlob gives in the model, in 1/Scale
PolarityChoices == {-Scale, 0, 3}
\* the price targets the user enters in the model
TargetChoices == {0, 1, 2}

(***************************************************************************)
(* main(): one run of the script per user interaction                      *)
(***************************************************************************)
NoCall ==
  /\ op' = "none"
  /\ args' = <<>>
  /\ stack' = <<>>
  /\ attempt' = 0
  /\ ret' = NoRet
  /\ reqLog' = <<>>
  /\ gateLog' = <<>>
  /\ collected' = <<>>
  /\ scanLog' = <<>>

NoLocals ==
  /\ coins' = <<>>
  /\ selected_coin' = "none"
  /\ time_period' = "none"
  /\ target_price' = 0
  /\ coin_info' = <<>>
  /\ comments' = <<>>
  /\ score' = Score(0, 1)
  /\ dates' = <<>>
  /\ prices' = <<>>

Returned == stack = <<>> /\ Returning

\* the gaps between two runs of the script, in seconds
RunGaps == {0, TTL_COINS}

\* A user interaction d seconds after the previous run: the script runs from
\* its top, which applies the decorators anew (line 291) and reaches line 508.
Rerun ==
  /\ pc = "idle"
  /\ runs < MaxRuns
  /\ runs' = runs + 1
  /\ \E d \in RunGaps : now' = now + Seconds(d)
  /\ cache' = Purged(cache, now')
  /\ invoked' = Forgotten(invoked, now')
  /\ last_time_called' = 0
  /\ pc' = "coins"
  /\ status' = "running"
  /\ StartCall("fetch_all_coins", <<>>)
  /\ NoLocals
  /\ shown' = {}
  /\ advice' = <<>>
  /\ alerts' = <<>>
  /\ UNCHANGED <<analyze_clicked, benchVars>>

\* lines 508-545 without the st.stop() of line 511
MainCoinsNoStop ==
  /\ runs' = runs
  /\ UNCHANGED benchVars
  /\ pc = "coins" /\ Returned
  /\ coins' = ret.data
  /\ \E p \in PeriodChoices, t \in TargetChoices, pressed \in BOOLEAN :
       /\ selected_coin' = IF ret.data = <<>> THEN CoinIds[1] ELSE ret.data[1]
       /\ time_period' = p
       /\ target_price' = t
       /\ analyze_clicked' = (analyze_clicked \/ pressed)
       /\ shown' = (IF ret.data = <<>> THEN {"coin_list_error"} ELSE {})
                     \cup (IF analyze_clicked'
                           THEN shown \cup {"selectors", "overview_card"}
                           ELSE shown \cup {"selectors"})
       /\ IF analyze_clicked'
          THEN /\ pc' = "info" /\ status' = status
               /\ StartCall("fetch_coin_info", <<selected_coin'>>)
          ELSE /\ pc' = "idle" /\ status' = "complete" /\ NoCall
  /\ UNCHANGED <<now, cache, invoked, last_time_called>>
  /\ UNCHANGED <<coin_info, comments, score, dates, prices, advice, alerts>>

\* lines 508-545
MainCoins ==
  /\ runs' = runs
  /\ UNCHANGED benchVars
  /\ pc = "coins" /\ Returned
  /\ coins' = ret.data
  /\ IF ret.kind = "raise"
     THEN /\ status' = "crashed" /\ pc' = "idle" /\ NoCall
          /\ UNCHANGED <<shown, analyze_clicked, selected_coin, time_period,
                         target_price>>
     ELSE IF ret.data = <<>>
     THEN /\ shown' = shown \cup {"coin_list_error"}
          /\ status' = "stopped" /\ pc' = "idle" /\ NoCall
          /\ UNCHANGED <<analyze_clicked, selected_coin, time_period,
                         target_price>>
     ELSE \E i \in 1..Len(ret.data), p \in PeriodChoices,
             t \in TargetChoices, pressed \in BOOLEAN :
            /\ selected_coin' = ret.data[i]
            /\ time_period' = p
            /\ target_price' = t
            /\ analyze_clicked' = (analyze_clicked \/ pressed)
            /\ shown' = IF analyze_clicked \/ pressed
                         THEN shown \cup {"selectors", "overview_card"}
                         ELSE shown \cup {"selectors"}
            /\ IF analyze_clicked'
               THEN /\ pc' = "info" /\ status' = status
                    /\ StartCall("fetch_coin_info", <<ret.data[i]>>)
               ELSE /\ pc' = "idle" /\ status' = "complete" /\ NoCall
  /\ UNCHANGED <<now, cache, invoked, last_time_called>>
  /\ UNCHANGED <<coin_info, comments, score, dates, prices, advice, alerts>>

\* lines 552-565
MainInfo ==
  /\ runs' = runs
  /\ UNCHANGED benchVars
  /\ pc = "info" /\ Returned
  /\ coin_info' = ret.data
  /\ IF ret.kind = "raise"
     THEN /\ status' = "crashed" /\ pc' = "idle" /\ NoCall /\ shown' = shown
     ELSE /\ shown' = IF ret.data # <<>>
                      THEN shown \cup {"overview", "sentiment_card"}
                      ELSE shown \cup {"sentiment_card"}
          /\ pc' = "comments" /\ status' = status
          /\ StartCall("fetch_reddit_comments", <<SymbolOf(selected_coin)>>)
  /\ UNCHANGED <<procVars, advice, alerts>>
  /\ UNCHANGED <<coins, selected_coin, time_period, target_price,
                 comments, score, dates, prices>>

MainCommentsUnguarded ==
  /\ runs' = runs
  /\ UNCHANGED benchVars
  /\ pc = "comments" /\ Returned
  /\ comments' = ret.data
  /\ IF ret.kind = "raise"
     THEN /\ status' = "crashed" /\ pc' = "idle" /\ NoCall
          /\ UNCHANGED <<shown, score, advice>>
     ELSE /\ IF TRUE
             THEN \E pols \in [1..Len(ret.data) -> PolarityChoices] :
                    /\ score' = analyze_comments(ret.data, pols)
                    /\ advice' = advice \o provide_investment_advice(score')
                    /\ shown' = shown \cup {"table", "market_card"}
             ELSE /\ shown' = shown \cup {"no_comments_warning", "market_card"}
                  /\ UNCHANGED <<score, advice>>
          /\ pc' = "market" /\ status' = status
          /\ StartCall("fetch_market_data",
                       <<selected_coin, time_mapping(time_period)>>)
  /\ UNCHANGED <<procVars, alerts>>
  /\ UNCHANGED <<coins, selected_coin, time_period, target_price,
                 coin_info, dates, prices>>

\* lines 565-583
MainComments ==
  /\ runs' = runs
  /\ UNCHANGED benchVars
  /\ pc = "comments" /\ Returned
  /\ comments' = ret.data
  /\ IF ret.kind = "raise"
     THEN /\ status' = "crashed" /\ pc' = "idle" /\ NoCall
          /\ UNCHANGED <<shown, score, advice>>
     ELSE /\ IF ret.data # <<>>
             THEN \E pols \in [1..Len(ret.data) -> PolarityChoices] :
                    /\ score' = analyze_comments(ret.data, pols)
                    /\ advice' = advice \o provide_investment_advice(score')
                    /\ shown' = shown \cup {"table", "market_card"}
             ELSE /\ shown' = shown \cup {"no_comments_warning", "market_card"}
                  /\ UNCHANGED <<score, advice>>
          /\ pc' = "market" /\ status' = status
          /\ StartCall("fetch_market_data",
                       <<selected_coin, time_mapping(time_period)>>)
  /\ UNCHANGED <<procVars, alerts>>
  /\ UNCHANGED <<coins, selected_coin, time_period, target_price,
                 coin_info, dates, prices>>

\* lines 584-592; coin_info['name'] of line 585 raises when coin_info is None
MainMarket ==
  /\ runs' = runs
  /\ UNCHANGED benchVars
  /\ pc = "market" /\ Returned
  /\ pc' = "idle"
  /\ NoCall
  /\ IF ret.kind = "raise"
     THEN /\ status' = "crashed"
          /\ UNCHANGED <<dates, prices, shown, alerts>>
     ELSE /\ dates' = ret.data[1]
          /\ prices' = ret.data[2]
          /\ IF dates' # <<>> /\ prices' # <<>> /\ coin_info = <<>>
             THEN /\ status' = "crashed"
                  /\ UNCHANGED <<shown, alerts>>
             ELSE /\ shown' = IF dates' # <<>> /\ prices' # <<>>
                              THEN shown \cup {"chart"} ELSE shown
                  /\ alerts' = alerts \o PriceAlert(prices', target_price)
                  /\ status' = "complete"
  /\ UNCHANGED <<procVars, advice>>
  /\ UNCHANGED <<coins, selected_coin, time_period, target_price,
                 coin_info, comments, score>>

(***************************************************************************)
(* The application                                                         *)
(***************************************************************************)
\* the process at its start, but for where it is (pc), the call in
\* progress and the parameters of the environment
Start ==
  /\ now = StartTime
  /\ cache = [k \in Keys |-> NoEntry]
  /\ invoked = [k \in Keys |-> NotInvoked]
  /\ last_time_called = 0
  /\ analyze_clicked = FALSE
  /\ status = "none"
  /\ runs = 0
  /\ attempt = 0
  /\ ret = NoRet /\ reqLog = <<>> /\ gateLog = <<>>
  /\ coins = <<>> /\ selected_coin = "none" /\ time_period = "none"
  /\ target_price = 0 /\ coin_info = <<>> /\ comments = <<>>
  /\ score = Score(0, 1) /\ dates = <<>> /\ prices = <<>>
  /\ shown = {} /\ advice = <<>> /\ alerts = <<>>
  /\ collected = <<>> /\ scanLog = <<>>
  /\ starts = <<>>

Init ==
  /\ Start
  /\ pc = "idle"
  /\ op = "none" /\ args = <<>> /\ stack = <<>>
  /\ feedCap = AppFeedCap /\ max_per_second = RATE_COINS

vars == <<procVars, pc, status, runs, callVars, localVars, pageVars,
          redditVars, benchVars>>

Next ==
  \/ Rerun
  \/ CacheLookup
  \/ CacheStore
  \/ GateEnter
  \/ GateReturn
  \/ RetryAttempt
  \/ RetryReturn
  \/ BodyFetchAllCoins
  \/ BodyFetchCoinInfo
  \/ BodyFetchMarketData
  \/ RedditScan
  \/ RedditReturn
  \/ RedditFail
  \/ MainCoins
  \/ MainInfo
  \/ MainComments
  \/ MainMarket

Spec == Init /\ [][Next]_vars


(***************************************************************************)
(* The cached fetch functions under any callers                             *)
(***************************************************************************)
CallChoices ==
  {<<"fetch_all_coins", <<>>>>}
    \cup {<<"fetch_coin_info", <<c>>>> : c \in CoinSet}
    \cup {<<"fetch_market_data", <<CoinIds[1], time_mapping(p)>>>> :
            p \in PeriodChoices}

\* the gaps between two calls, in seconds
CallGaps == {0, TTL_MARKET, TTL_COINS}

\* a caller calls one of the fetch functions d seconds after the previous
\* call returned
FetchCall ==
  /\ pc = "caller" /\ stack = <<>>
  /\ \E d \in CallGaps :
       /\ now + Seconds(d) <= Horizon
       /\ now' = now + Seconds(d)
  /\ cache' = Purged(cache, now')
  /\ invoked' = Forgotten(invoked, now')
  /\ \E c \in CallChoices : StartCall(c[1], c[2])
  /\ UNCHANGED <<last_time_called, analyze_clicked>>
  /\ UNCHANGED <<pc, status, runs, localVars, pageVars, benchVars>>

InitFetch ==
  /\ Start
  /\ pc = "caller"
  /\ op = "none" /\ args = <<>> /\ stack = <<>>
  /\ feedCap = AppFeedCap /\ max_per_second = RATE_COINS

NextFetch ==
  \/ FetchCall
  \/ CacheLookup
  \/ CacheStore
  \/ GateEnter
  \/ GateReturn
  \/ RetryAttempt
  \/ RetryReturn
  \/ BodyFetchAllCoins
  \/ BodyFetchCoinInfo
  \/ BodyFetchMarketData

SpecFetch == InitFetch /\ [][NextFetch]_vars


(***************************************************************************)
(* Properties of the cached fetch functions                                *)
(***************************************************************************)
Cached == {"fetch_all_coins", "fetch_coin_info", "fetch_market_data"}
CalledKey == Key(op, args)
\* the call has come back to its caller, which has not yet gone on
CallReturned == Returned /\ op # "none"
\* the body of the called function is about to send its request
AboutToRequest == Top = "body" /\ Entering

\* C1: a failed request is never stored in the cache: a call of a cached
\* fetch function that is answered from the cache, without a request of its
\* own, is answered with the result of a request that succeeded.
C1_FailureNotCached ==
  (CallReturned /\ op \in Cached /\ reqLog = <<>>)
    => invoked[CalledKey].outcome = "ok"

\* C2: within the ttl of its function after a request for a key, no other
\* request for that key is made, however often it is called (the call is
\* answered without a request); a call later than that makes a request.
C2_OneRequestPerWindow ==
  /\ (AboutToRequest /\ op \in Cached)
       => ~Recent(invoked[CalledKey], op, now)
  /\ (CallReturned /\ op \in Cached)
       => /\ Len(reqLog) <= 1
          /\ Recent(invoked[CalledKey], op, now)
          /\ reqLog # <<>> => invoked[CalledKey].time = now

\* a call at a later time inside the window of its key, answered without a
\* request, while the window of another key has expired
C2_Witness ==
  /\ CallReturned /\ op = "fetch_coin_info" /\ reqLog = <<>>
  /\ invoked[CalledKey].time < now
  /\ \E k \in Keys : invoked[k].outcome = "old"

\* C3: a failed request is retried: a call comes back after a request that
\* succeeded or after MAX_ATTEMPTS requests, and never makes more.
C3_FailedAttemptRetried ==
  /\ Len(reqLog) <= MAX_ATTEMPTS
  /\ (CallReturned /\ reqLog # <<>>)
       => (Last(reqLog) = "ok" \/ Len(reqLog) = MAX_ATTEMPTS)

\* C4: the analysis flow of main runs to its end whatever the fetches
\* return.
C4_FlowNeverFails == status # "crashed"

\* C5, as claimed: rate_limited is the innermost wrapper of fetch_all_coins
\* and retry is around it, so the gate is passed before every request.
C5_RateLimitInnermost ==
  (op = "fetch_all_coins" /\ Top = "body")
    => stack = <<"cache_data", "retry", "rate_limited", "body">>

\* C5, amended: the wrappers of fetch_all_coins are, from the outside,
\* cache_data, rate_limited, retry; a call passes the gate once, before the
\* first attempt, when the cache has no live entry, and passes neither the
\* gate nor retry when it has.
IsPrefix(s, t) == Len(s) <= Len(t) /\ s = SubSeq(t, 1, Len(s))
C5_RetryInnermost ==
  op = "fetch_all_coins" =>
    /\ IsPrefix(stack, <<"cache_data", "rate_limited", "retry", "body">>)
    /\ attempt > 0 => gateLog = <<0>>
    /\ reqLog # <<>> => gateLog = <<0>>
    /\ (CallReturned /\ reqLog = <<>>) => (gateLog = <<>> /\ attempt = 0)

\* the body of fetch_all_coins runs inside retry inside the gate
C5_Witness ==
  /\ op = "fetch_all_coins"
  /\ stack = <<"cache_data", "rate_limited", "retry", "body">>
  /\ gateLog = <<0>> /\ attempt = 1


(***************************************************************************)
(* One call of fetch_reddit_comments(coin_symbol, limit)                   *)
(***************************************************************************)
SymbolChoices == {<<"b", "t">>, <<"E">>}

InitReddit ==
  /\ Start
  /\ pc = "caller"
  /\ op = "fetch_reddit_comments"
  /\ args \in {<<sym, l>> : sym \in SymbolChoices, l \in 1..MaxLimit}
  /\ stack = <<"retry">>
  /\ feedCap = MaxFeed /\ max_per_second = RATE_COINS

NextReddit ==
  \/ RetryAttempt
  \/ RedditScan
  \/ RedditReturn
  \/ RedditFail
  \/ RetryReturn

SpecReddit == InitReddit /\ [][NextReddit]_vars

(***************************************************************************)
(* A function decorated with rate_limited(max_per_second) under any        *)
(* callers                                                                 *)
(***************************************************************************)
RateArgs == {"a", "b"}
LastTwo(s) == IF Len(s) > 2 THEN Tail(s) ELSE s

\* lines 293-300: a call with argument a arrives now and goes on to func
\* when the wait is over
RateLimitedCall ==
  /\ pc = "rate_limited"
  /\ now <= StartTime + RateTicks
  /\ \E a \in RateArgs, w \in WakeTimes(now, last_time_called, max_per_second) :
       /\ now' = w
       /\ last_time_called' = w
       /\ starts' = LastTwo(Append(starts,
                      [arrived |-> now, started |-> w, arg |-> a]))
  /\ UNCHANGED <<cache, invoked, analyze_clicked, pc, status, runs>>
  /\ UNCHANGED <<callVars, localVars, pageVars, redditVars>>
  /\ UNCHANGED <<feedCap, max_per_second>>

\* time passes between two calls
TimePasses ==
  /\ pc = "rate_limited"
  /\ \E d \in 1..(TicksPerSecond + 1) :
       /\ now + d <= StartTime + RateTicks
       /\ now' = now + d
  /\ UNCHANGED <<cache, invoked, last_time_called, analyze_clicked>>
  /\ UNCHANGED <<pc, status, runs, callVars, localVars, pageVars>>
  /\ UNCHANGED <<redditVars, benchVars>>

InitRate ==
  /\ Start
  /\ pc = "rate_limited"
  /\ op = "none" /\ args = <<>> /\ stack = <<>>
  /\ feedCap = AppFeedCap
  /\ max_per_second \in 1..MaxRate

NextRate ==
  \/ RateLimitedCall
  \/ TimePasses

SpecRate == InitRate /\ [][NextRate]_vars

(***************************************************************************)
(* provide_investment_advice(score) for every score of the grid            *)
(***************************************************************************)
Advise ==
  /\ pc = "advice"
  /\ \E n \in (-Scale)..Scale :
       /\ score' = Score(n, Scale)
       /\ advice' = provide_investment_advice(score')
  /\ status' = "advised"
  /\ UNCHANGED <<procVars, pc, runs, callVars, redditVars, benchVars>>
  /\ UNCHANGED <<coins, selected_coin, time_period, target_price,
                 coin_info, comments, dates, prices, shown, alerts>>

InitAdvice ==
  /\ Start
  /\ pc = "advice"
  /\ op = "none" /\ args = <<>> /\ stack = <<>>
  /\ feedCap = AppFeedCap /\ max_per_second = RATE_COINS

NextAdvice == Advise

SpecAdvice == InitAdvice /\ [][NextAdvice]_vars

(***************************************************************************)
(* Properties of the rate limiter, the analysis and the comment scan       *)
(***************************************************************************)
\* C6: two consecutive calls of the rate-limited function start at least
\* 1/max_per_second seconds apart; a call that arrives earlier waits and
\* then starts, one that arrives later starts at once; last_time_called is
\* the start of the latest call whatever its arguments.
C6_MinInterval ==
  /\ starts # <<>> => last_time_called = Last(starts).started
  /\ \A i \in 1..Len(starts) : starts[i].started >= starts[i].arrived
  /\ Len(starts) = 2 =>
       /\ (starts[2].started - starts[1].started) * max_per_second
            >= TicksPerSecond
       /\ (starts[2].arrived - starts[1].started) * max_per_second
            >= TicksPerSecond => starts[2].started = starts[2].arrived

\* a call with other arguments that arrived too early and waited
C6_Witness ==
  /\ Len(starts) = 2
  /\ starts[2].arrived < starts[2].started
  /\ starts[1].arg # starts[2].arg

\* the alert check of a run has been evaluated
AlertEvaluated == pc = "idle" /\ status = "complete" /\ "market_card" \in shown
LatestPrice == IF prices = <<>> THEN 0 ELSE prices[Len(prices)]

C8_Advisory ==
  status = "advised" =>
    LET n == score.num
        d == score.den
    IN /\ Len(advice) = 1
       /\ n * 10 > d => advice[1] = "strong_positive"
       /\ (0 < n /\ n * 10 <= d) => advice[1] = "mild_positive"
       /\ n = 0 => advice[1] = "neutral"
       /\ (n < 0 /\ n * 10 >= -d) => advice[1] = "mild_negative"
       /\ n * 10 < -d => advice[1] = "strong_negative"

\* the score is 0.1
C8_Witness ==
  /\ status = "advised"
  /\ score.num * 10 = score.den
  /\ advice = <<"mild_positive">>

\* the sentiment step of a run is over
SentimentDone == "market_card" \in shown

\* C9: no comments are scored 0 by analyze_comments, and a run that found no
\* comments emits none of the advisories and shows the no-comments warning
\* instead.
C9_NoAdviceWithoutComments ==
  /\ analyze_comments(<<>>, <<>>).num = 0
  /\ (SentimentDone /\ comments = <<>>)
       => /\ advice = <<>>
          /\ "no_comments_warning" \in shown
          /\ "table" \notin shown

\* a run whose Reddit fetch came back empty went on to the market data
C9_Witness ==
  /\ SentimentDone /\ comments = <<>>
  /\ pc = "idle" /\ status = "complete"
  /\ "no_comments_warning" \in shown

\* C10: fetch_reddit_comments reads at most HOT_LIMIT submissions, none
\* once limit matching comments are collected; it returns at most limit
\* bodies, each containing the symbol whatever the case, and returns no
\* body at all when the scan failed.
C10_CommentScan ==
  /\ Len(scanLog) <= HOT_LIMIT
  /\ \A i \in 1..Len(scanLog) : scanLog[i] < Limit(args)
  /\ (CallReturned /\ op = "fetch_reddit_comments") =>
       /\ ret.kind = "value"
       /\ Len(ret.data) <= Limit(args)
       /\ \A j \in 1..Len(ret.data) :
            /\ Contains(LowerStr(ret.data[j]), LowerStr(args[1]))
            /\ j <= Len(collected) /\ ret.data[j] = collected[j]
       /\ Last(reqLog) = "error" => ret.data = <<>>

\* the scan stopped early with more than limit matching comments, which
\* were cut to limit
C10_Witness ==
  /\ CallReturned /\ op = "fetch_reddit_comments"
  /\ Last(reqLog) = "ok"
  /\ Len(scanLog) < HOT_LIMIT
  /\ Len(collected) > Limit(args)
  /\ Len(ret.data) = Limit(args)

\* the functions main calls once a coin is selected
PerCoinFetches ==
  {"fetch_coin_info", "fetch_reddit_comments", "fetch_market_data"}
\* the selection inputs and everything the analysis column shows
AfterCoinList ==
  {"selectors", "overview_card", "overview", "sentiment_card", "table",
   "no_comments_warning", "market_card", "chart"}

\* C11: a run whose fetch_all_coins yields no coins halts with the coin list
\* error shown and nothing of the selection inputs or the analysis shown;
\* none of fetch_coin_info, fetch_reddit_comments and fetch_market_data is
\* ever called in a run whose coin list is empty, whether or not analysis
\* was requested in an earlier run.
C11_EmptyCoinListHalts ==
  /\ (pc = "idle" /\ runs > 0 /\ coins = <<>>)
       => /\ status = "stopped"
          /\ op = "none" /\ stack = <<>>
          /\ "coin_list_error" \in shown
          /\ shown \cap AfterCoinList = {}
          /\ coin_info = <<>> /\ comments = <<>> /\ prices = <<>>
          /\ advice = <<>> /\ alerts = <<>>
  /\ op \in PerCoinFetches => (coins # <<>> /\ status = "running")
  /\ status = "stopped" => (pc = "idle" /\ coins = <<>>)

\* the second run, with analysis requested in the first, got no coins
C11_Witness ==
  /\ runs = 2 /\ analyze_clicked
  /\ pc = "idle" /\ status = "stopped" /\ coins = <<>>
  /\ "coin_list_error" \in shown

=============================================================================
